---- MODULE Spec2Model ----
(***************************************************************************)
(* A model of gramidt/wazero's register-set layer (package regalloc), of   *)
(* the linear-scan allocator core that uses it, and of the wasm_exec host  *)
(* module (Run, the runtime.* imports and the module-scoped state).        *)
(*                                                                         *)
(* A 64-bit word is represented by the set of its set bit positions, so    *)
(* that `|` is union, `&` is intersection and a shift by 64 or more gives  *)
(* the empty word, as Go defines it.                                       *)
(***************************************************************************)
EXTENDS Integers, Sequences, FiniteSets, TLC

(***************************************************************************)
(* Bounds of the model.                                                    *)
(***************************************************************************)
\* real registers 0..MaxLowReg are exercised, next to the ones around the width
MaxLowReg == 1
\* the value states (non-nil *vrState pointers) that may be bound to a register
NumVR == 2
\* NewRegSet is called with at most this many registers
MaxNewRegs == 2
\* the abstract values of a function handed to the linear scan
NumValues == 3
\* the instructions of the function are numbered 0..MaxInstr
MaxInstr == 5
\* a register class has between 1 and MaxRegs allocatable real registers
MaxRegs == 2
\* Run is invoked at most this many times on one WasmExec
MaxRuns == 2
\* the guest calls at most this many imports during one Run
MaxCalls == 2
\* the guest nests at most this many calls into the module (run, then resume)
MaxDepth == 2
\* the exit codes a guest passes to runtime.wasmExit are 0..MaxExitCode
MaxExitCode == 1
\* the distinct strings the guest stores with js.stringVal
NumStrs == 1
\* the move resolver orders moves among the real registers 1..NumLocs
NumLocs == 3
\* the control-flow graphs of the move resolver have the blocks 1..NumBlocks
NumBlocks == 3
\* the control-flow graphs of the liveness analyzer have the blocks 1..NumLiveBlocks
NumLiveBlocks == 2
\* the values table is called with the values 1..NumTabVals
NumTabVals == 2
\* and at most MaxValOps times
MaxValOps == 6

(***************************************************************************)
(* Program constants.                                                      *)
(***************************************************************************)
\* the width of RegSet (uint64) and the length of regInUseSet ([64]*vrState)
RegSetWidth == 64

\* the first ID of the values table: the IDs below it are predefined
nextID == 17
fdStdout == 1
fdStderr == 2

\* the nil *vrState
Nil == 0
VRStates == 1..NumVR
RealRegs == 0..(RegSetWidth - 1)
\* the register IDs handed to the operations: a few low ones, the last real
\* register, and two IDs at or beyond the width
RegInputs == (0..MaxLowReg) \cup {RegSetWidth - 1, RegSetWidth, RegSetWidth + 1}

VARIABLES
    obj,        \* which register set this run exercises: "RegSet" or "inUse"
    regSet,     \* a RegSet value: the set bits of the uint64
    inUse,      \* a regInUseSet: [0..63 -> VRStates \cup {Nil}]
    members,    \* history: the real registers added to regSet
    bound,      \* history: the real registers added to inUse and not removed since
    binding,    \* history: the state each real register is bound to by the adds,
                \* removes and resets so far
    lastOp,     \* history: the last operation, its argument, result and outcome
    \* -- the linear scan over one function --
    numRegs,    \* the allocatable real registers of each class
    ivs,        \* the live intervals, in ascending order of start point
    idx,        \* the interval the scan is at
    phase,      \* "take": every interval taken is allocated; "scan": one is being placed
    active,     \* the values that hold a register at the scan's point
    free,       \* the free pool: one RegSet per register class
    hold,       \* per value: the register it was given and the points it holds it
    spilled,    \* the values whose final home is a spill slot
    \* -- a WasmExec and the guest it runs --
    runs,       \* the invocations of Run so far
    pc,         \* "idle", within Run "guest", "exited" or "panicked"; "crashed"
    result,     \* what the last Run returned
    st,         \* the module-scoped state the last Run created
    module,     \* the guest module of the last Run: closed or not, and its exit code
    stack,      \* the calls into the guest in progress: run, then the events resumed
    events,     \* the result field of each event made in this Run
    out,        \* the bytes handed to this Run's stdout and stderr writers and to files
    timers,     \* the timers started with time.AfterFunc that have not fired
    calls,      \* the imports the guest has called in this Run
    reqs,       \* history: the guest's write requests and exit request in this Run
    lastCall,   \* history: the last call and what it returned
    \* -- the passes around the linear scan, and the values table on its own --
    pmove,      \* the move resolver at one resolution point
    edges,      \* the move resolver over the edges of a control-flow graph
    live,       \* the liveness analyzer over a control-flow graph
    vals        \* a values table under calls of increment and decrement

rsVars == <<obj, regSet, inUse, members, bound, binding, lastOp>>
scanVars == <<numRegs, ivs, idx, phase, active, free, hold, spilled>>
runVars == <<runs, pc, result, st, module, stack, events, out, timers, calls, reqs, lastCall>>
passVars == <<pmove, edges, live, vals>>

(***************************************************************************)
(* uint64 arithmetic on bit sets.                                          *)
(***************************************************************************)
\* 1<<uint(n) on a uint64: Go gives 0 when the shift count reaches the width
Shl1(n) == IF n < RegSetWidth THEN {n} ELSE {}
BitAnd(a, b) == a \cap b
BitOr(a, b) == a \cup b

(***************************************************************************)
(* RegSet (a uint64 value type)                                            *)
(***************************************************************************)
\* `|` written for `&`
RegSet_has_Or(rs, r) == BitOr(rs, Shl1(r)) # {}

RegSet_has(rs, r) == BitAnd(rs, Shl1(r)) # {}

\* a slip in the shift count
RegSet_add_Shifted(rs, r) == IF r >= RegSetWidth THEN rs ELSE BitOr(rs, Shl1(r + 1))

RegSet_add(rs, r) == IF r >= RegSetWidth THEN rs ELSE BitOr(rs, Shl1(r))

RECURSIVE RegSet_RangeFrom(_, _)
RegSet_RangeFrom(rs, i) ==
    IF i >= RegSetWidth THEN <<>>
    ELSE (IF BitAnd(rs, Shl1(i)) # {} THEN <<i>> ELSE <<>>) \o RegSet_RangeFrom(rs, i + 1)

\* the registers f is called with, in call order
RegSet_Range(rs) == RegSet_RangeFrom(rs, 0)

RECURSIVE NewRegSetFrom(_, _)
NewRegSetFrom(ret, regs) ==
    IF regs = <<>> THEN ret ELSE NewRegSetFrom(RegSet_add(ret, Head(regs)), Tail(regs))

NewRegSet(regs) == NewRegSetFrom({}, regs)

(***************************************************************************)
(* regInUseSet (a [64]*vrState array, used through a pointer).  An index   *)
(* at or beyond 64 is a run-time panic (index out of range): the result    *)
(* carries the array after the call and whether the call panicked.         *)
(***************************************************************************)
InUse_reset(rs) == [i \in RealRegs |-> Nil]

newRegInUseSet == InUse_reset([i \in RealRegs |-> Nil])

InUse_has(rs, r) == r < RegSetWidth /\ rs[r] # Nil

InUse_get(rs, r) ==
    IF r \in RealRegs THEN [ret |-> rs[r], panicked |-> FALSE]
    ELSE [ret |-> Nil, panicked |-> TRUE]

\* the register keeps its occupant
InUse_remove_Keep(rs, r) ==
    IF r \in RealRegs THEN [rs |-> rs, panicked |-> FALSE]
    ELSE [rs |-> rs, panicked |-> TRUE]

InUse_remove(rs, r) ==
    IF r \in RealRegs THEN [rs |-> [rs EXCEPT ![r] = Nil], panicked |-> FALSE]
    ELSE [rs |-> rs, panicked |-> TRUE]

\* the guard on the register ID left out
InUse_add_Unguarded(rs, r, vr) ==
    IF r \in RealRegs THEN [rs |-> [rs EXCEPT ![r] = vr], panicked |-> FALSE]
    ELSE [rs |-> rs, panicked |-> TRUE]

InUse_add(rs, r, vr) ==
    IF r >= RegSetWidth THEN [rs |-> rs, panicked |-> FALSE]
    ELSE [rs |-> [rs EXCEPT ![r] = vr], panicked |-> FALSE]

RECURSIVE InUse_rangeFrom(_, _)
InUse_rangeFrom(rs, i) ==
    IF i >= RegSetWidth THEN <<>>
    ELSE (IF rs[i] # Nil THEN <<<<i, rs[i]>>>> ELSE <<>>) \o InUse_rangeFrom(rs, i + 1)

\* the (register, value state) pairs f is called with, in call order
InUse_range(rs) == InUse_rangeFrom(rs, 0)

(***************************************************************************)
(* The register-set operations as steps.                                   *)
(***************************************************************************)
Op(set, name, r, ret, panicked) ==
    [set |-> set, name |-> name, r |-> r, ret |-> ret, panicked |-> panicked]

NoOp == Op("none", "none", 0, 0, FALSE)

RegSeqs == UNION {[1..n -> RegInputs] : n \in 0..MaxNewRegs}

RS_New ==
    /\ obj = "RegSet"
    /\ \E regs \in RegSeqs :
        /\ regSet' = NewRegSet(regs)
        /\ members' = {regs[i] : i \in DOMAIN regs} \cap RealRegs
        /\ lastOp' = Op("RegSet", "new", 0, 0, FALSE)
        /\ UNCHANGED <<obj, inUse, bound, binding>>
    /\ UNCHANGED <<scanVars, runVars, passVars>>

RS_Add ==
    /\ obj = "RegSet"
    /\ \E r \in RegInputs :
        /\ regSet' = RegSet_add(regSet, r)
        /\ members' = members \cup ({r} \cap RealRegs)
        /\ lastOp' = Op("RegSet", "add", r, 0, FALSE)
        /\ UNCHANGED <<obj, inUse, bound, binding>>
    /\ UNCHANGED <<scanVars, runVars, passVars>>

RS_Has ==
    /\ obj = "RegSet"
    /\ \E r \in RegInputs :
        /\ lastOp' = Op("RegSet", "has", r, RegSet_has(regSet, r), FALSE)
        /\ UNCHANGED <<obj, regSet, inUse, members, bound, binding>>
    /\ UNCHANGED <<scanVars, runVars, passVars>>

RS_Range ==
    /\ obj = "RegSet"
    /\ lastOp' = Op("RegSet", "Range", 0, RegSet_Range(regSet), FALSE)
    /\ UNCHANGED <<obj, regSet, inUse, members, bound, binding>>
    /\ UNCHANGED <<scanVars, runVars, passVars>>

IU_Reset ==
    /\ obj = "inUse"
    /\ inUse' = InUse_reset(inUse)
    /\ bound' = {}
    /\ lastOp' = Op("inUse", "reset", 0, 0, FALSE)
    /\ binding' = [r \in RealRegs |-> Nil]
    /\ UNCHANGED <<obj, regSet, members>>
    /\ UNCHANGED <<scanVars, runVars, passVars>>

IU_Has ==
    /\ obj = "inUse"
    /\ \E r \in RegInputs :
        /\ lastOp' = Op("inUse", "has", r, InUse_has(inUse, r), FALSE)
        /\ UNCHANGED <<obj, regSet, inUse, members, bound, binding>>
    /\ UNCHANGED <<scanVars, runVars, passVars>>

IU_Get ==
    /\ obj = "inUse"
    /\ \E r \in RegInputs :
        LET res == InUse_get(inUse, r) IN
        /\ lastOp' = Op("inUse", "get", r, res.ret, res.panicked)
        /\ UNCHANGED <<obj, regSet, inUse, members, bound, binding>>
    /\ UNCHANGED <<scanVars, runVars, passVars>>

IU_Remove ==
    /\ obj = "inUse"
    /\ \E r \in RegInputs :
        LET res == InUse_remove(inUse, r) IN
        /\ inUse' = res.rs
        /\ bound' = IF r \in RealRegs THEN bound \ {r} ELSE bound
        /\ binding' = IF r \in RealRegs THEN [binding EXCEPT ![r] = Nil] ELSE binding
        /\ lastOp' = Op("inUse", "remove", r, InUse_has(inUse, r), res.panicked)
        /\ UNCHANGED <<obj, regSet, members>>
    /\ UNCHANGED <<scanVars, runVars, passVars>>

\* the allocator binds a register to the state of the value it holds; an
\* unbound register is written by remove and reset
IU_Add ==
    /\ obj = "inUse"
    /\ \E r \in RegInputs, vr \in VRStates :
        LET res == InUse_add(inUse, r, vr) IN
        /\ inUse' = res.rs
        /\ bound' = bound \cup ({r} \cap RealRegs)
        /\ binding' = IF r \in RealRegs THEN [binding EXCEPT ![r] = vr] ELSE binding
        /\ lastOp' = Op("inUse", "add", r,
                       [vr |-> vr, over |-> IF r \in RealRegs THEN binding[r] ELSE Nil],
                       res.panicked)
        /\ UNCHANGED <<obj, regSet, members>>
    /\ UNCHANGED <<scanVars, runVars, passVars>>

IU_Range ==
    /\ obj = "inUse"
    /\ lastOp' = Op("inUse", "range_", 0, InUse_range(inUse), FALSE)
    /\ UNCHANGED <<obj, regSet, inUse, members, bound, binding>>
    /\ UNCHANGED <<scanVars, runVars, passVars>>

(***************************************************************************)
(* The linear-scan allocator core (spec.md 3 and 4.3).                     *)
(*                                                                         *)
(* Program points order the instructions and, within an instruction, its   *)
(* uses before its definitions: instruction i reads its operands at point  *)
(* 2i and writes its results at point 2i+1.  A value defined by            *)
(* instruction def and last used by instruction use lives over             *)
(* [2 def + 1, 2 use]; a value that is never used (use = def) lives at its *)
(* definition point only.  Every value has one contiguous interval, so the *)
(* inactive list of the scan stays empty and is left out.                  *)
(***************************************************************************)
Classes == {1, 2}
\* "no register": the sentinel ID at the width of the register universe
NoReg == RegSetWidth

UsePoint(i) == 2 * i
DefPoint(i) == 2 * i + 1
Start(iv) == DefPoint(iv.def)
End(iv) == IF iv.use = iv.def THEN DefPoint(iv.def) ELSE UsePoint(iv.use)
Points == 0..DefPoint(MaxInstr)

Overlap(a, b) == Start(a) <= End(b) /\ Start(b) <= End(a)

\* the real registers of class c: the classes partition the universe
ClassRegs(c, n) == {(c - 1) * MaxRegs + k : k \in 0..(n - 1)}

RECURSIVE SetToSeq(_)
SetToSeq(S) == IF S = {} THEN <<>> ELSE LET x == CHOOSE y \in S : TRUE IN <<x>> \o SetToSeq(S \ {x})

\* rs &^ (1 << r): the register leaves the pool
RegSet_remove(rs, r) == rs \ Shl1(r)

\* step 1: the interval ended before the current one starts
IsExpired(iv, cur) == End(iv) < Start(cur)

\* step 3: among the active values of the class, those that end furthest
SpillVictims(act, c, in) ==
    {v \in act : in[v].class = c /\ \A w \in act : in[w].class = c => End(in[w]) <= End(in[v])}

\* step 3: the victim is evicted when it ends later than the current interval
Evicts(victim, cur) == End(victim) > End(cur)

NoHold == [reg |-> NoReg, from |-> 0, to |-> 0]

\* the intervals of a function: value i+1 is defined by the instruction that
\* defines value i or by the next one, and is last used at or after it
\* the intervals that may follow those taken so far in ascending order of
\* start: the next value is defined by the instruction that defines the last
\* one or by the next instruction, and is last used at or after it
NextIntervals(taken) ==
    LET defs == IF taken = <<>> THEN {0}
                ELSE {d \in {taken[Len(taken)].def, taken[Len(taken)].def + 1} : d <= MaxInstr}
    IN {iv \in [class : Classes, def : defs, use : 0..MaxInstr] : iv.use >= iv.def}

\* the scan takes the next interval of the sorted list
Scan_Take ==
    /\ phase = "take"
    /\ idx < NumValues
    /\ \E iv \in NextIntervals(ivs) :
        /\ ivs' = Append(ivs, iv)
        /\ hold' = Append(hold, NoHold)
    /\ idx' = idx + 1
    /\ phase' = "scan"
    /\ UNCHANGED <<numRegs, active, free, spilled>>
    /\ UNCHANGED <<rsVars, runVars, passVars>>

\* step 1, one interval at a time: its register goes back to the free pool
Scan_Expire ==
    /\ phase = "scan"
    /\ \E v \in active :
        /\ IsExpired(ivs[v], ivs[idx])
        /\ active' = active \ {v}
        /\ free' = [free EXCEPT ![ivs[v].class] = RegSet_add(@, hold[v].reg)]
    /\ UNCHANGED <<numRegs, ivs, idx, phase, hold, spilled>>
    /\ UNCHANGED <<rsVars, runVars, passVars>>

\* step 1 is over: nothing is left to expire
AllExpired == \A v \in active : ~IsExpired(ivs[v], ivs[idx])

Advance ==
    /\ idx' = idx
    /\ phase' = "take"

\* the registers of the class that its pool has
FreeRegs(c) == {r \in ClassRegs(c, numRegs) : RegSet_has(free[c], r)}

\* the register Range visits first
FirstFree(c) == CHOOSE r \in FreeRegs(c) : \A q \in FreeRegs(c) : r <= q

\* step 2: a free register of the class is assigned; the registers of a class
\* are interchangeable, and the pool is taken in Range's order
Scan_Assign ==
    /\ phase = "scan"
    /\ AllExpired
    /\ FreeRegs(ivs[idx].class) # {}
    /\ LET r == FirstFree(ivs[idx].class) IN
        /\ free' = [free EXCEPT ![ivs[idx].class] = RegSet_remove(@, r)]
        /\ hold' = [hold EXCEPT ![idx] = [reg |-> r, from |-> Start(ivs[idx]), to |-> End(ivs[idx])]]
    /\ active' = active \cup {idx}
    /\ Advance
    /\ UNCHANGED <<numRegs, ivs, spilled>>
    /\ UNCHANGED <<rsVars, runVars, passVars>>

PoolEmpty(c) == FreeRegs(c) = {}

\* step 3: the victim ends later than the current value: it is evicted and
\* spilled, and the current value takes its register from here on
Scan_Evict ==
    /\ phase = "scan"
    /\ AllExpired
    /\ PoolEmpty(ivs[idx].class)
    /\ \E v \in SpillVictims(active, ivs[idx].class, ivs) :
        /\ Evicts(ivs[v], ivs[idx])
        /\ spilled' = spilled \cup {v}
        /\ active' = (active \ {v}) \cup {idx}
        /\ hold' = [hold EXCEPT ![v].to = Start(ivs[idx]) - 1,
                                ![idx] = [reg |-> hold[v].reg, from |-> Start(ivs[idx]),
                                          to |-> End(ivs[idx])]]
    /\ Advance
    /\ UNCHANGED <<numRegs, ivs, free>>
    /\ UNCHANGED <<rsVars, runVars, passVars>>

\* step 3: no active value of the class ends later: the current value is spilled
Scan_SpillCurrent ==
    /\ phase = "scan"
    /\ AllExpired
    /\ PoolEmpty(ivs[idx].class)
    /\ \A v \in SpillVictims(active, ivs[idx].class, ivs) : ~Evicts(ivs[v], ivs[idx])
    /\ spilled' = spilled \cup {idx}
    /\ Advance
    /\ UNCHANGED <<numRegs, ivs, active, free, hold>>
    /\ UNCHANGED <<rsVars, runVars, passVars>>

NextScan ==
    \/ Scan_Take
    \/ Scan_Expire
    \/ Scan_Assign
    \/ Scan_Evict
    \/ Scan_SpillCurrent

(***************************************************************************)
(* wasm_exec: the values table, the module-scoped state, the imports.      *)
(*                                                                         *)
(* A Go value is a record [k, n]: its kind and which one of the kind.      *)
(* Slices are sequences, so that the slot of ID id is at index id + 1.     *)
(***************************************************************************)
NilVal == [k |-> "nil", n |-> 0]
StrVal(n) == [k |-> "string", n |-> n]
EventVal(n) == [k |-> "event", n |-> n]

\* ids[v], ok
HasId(j, v) == \E e \in j.ids : e.v = v
IdOf(j, v) == (CHOOSE e \in j.ids : e.v = v).id
\* ids[v] = id
SetId(ids, v, id) == {e \in ids : e.v # v} \cup {[v |-> v, id |-> id]}

Last(q) == q[Len(q)]
Front(q) == SubSeq(q, 1, Len(q) - 1)

\* [values, id]: the table after the call and the ID returned
\* the ID is reclaimed without its entry of ids being deleted, as the code
\* does, but the pool is not used
values_increment_NoReuse(j, v) ==
    LET known == HasId(j, v)
        id == IF known THEN IdOf(j, v) ELSE Len(j.values)
        j1 == IF known THEN j
              ELSE [j EXCEPT !.values = Append(@, v),
                             !.goRefCounts = Append(@, 0),
                             !.ids = SetId(@, v, id)]
    IN [values |-> [j1 EXCEPT !.goRefCounts[id + 1] = @ + 1], id |-> id + nextID]

values_increment(j, v) ==
    LET known == HasId(j, v)
        id == IF known THEN IdOf(j, v)
              ELSE IF Len(j.idPool) = 0 THEN Len(j.values) ELSE Last(j.idPool)
        j1 == IF known THEN j
              ELSE IF Len(j.idPool) = 0
                   THEN [j EXCEPT !.values = Append(@, v),
                                  !.goRefCounts = Append(@, 0),
                                  !.ids = SetId(@, v, id)]
                   ELSE [j EXCEPT !.idPool = Front(@),
                                  !.values[id + 1] = v,
                                  !.goRefCounts[id + 1] = 0,
                                  !.ids = SetId(@, v, id)]
    IN [values |-> [j1 EXCEPT !.goRefCounts[id + 1] = @ + 1], id |-> id + nextID]

\* a uint32 is kept as the 32-bit integer with the same bits, so that 0 - 1,
\* which is 2^32 - 1, is kept as -1: ++, -- and the test == 0 mean the same
values_decrement(j, id) ==
    LET i == id - nextID
        j1 == [j EXCEPT !.goRefCounts[i + 1] = @ - 1]
    IN IF j1.goRefCounts[i + 1] = 0
       THEN [j1 EXCEPT !.values[i + 1] = NilVal, !.idPool = Append(@, i)]
       ELSE j1

values_get(j, id) == j.values[(id - nextID) + 1]

\* the scheduledTimeouts map of a state literal that does not set it
NilMap == [nil |-> TRUE, keys |-> {}]

NoValues == [values |-> <<>>, goRefCounts |-> <<>>, ids |-> {}, idPool |-> <<>>]

\* s := &state{values: &values{ids: map[interface{}]uint32{}}}
Run_newState(left) ==
    [nextCallbackTimeoutID |-> 0, scheduledTimeouts |-> NilMap,
     values |-> NoValues, pendingEvent |-> NilVal]

state_clear(s) ==
    [nextCallbackTimeoutID |-> 0,
     scheduledTimeouts |-> [s.scheduledTimeouts EXCEPT !.keys = {}],
     values |-> NoValues,
     pendingEvent |-> NilVal]

\* the counter moves and the timer is started before the map is written: a
\* write to a nil map panics
state_scheduleEvent(s) ==
    LET id == s.nextCallbackTimeoutID
        s1 == [s EXCEPT !.nextCallbackTimeoutID = @ + 1]
    IN IF s.scheduledTimeouts.nil
       THEN [s |-> s1, id |-> id, panicked |-> TRUE]
       ELSE [s |-> [s1 EXCEPT !.scheduledTimeouts.keys = @ \cup {id}],
             id |-> id, panicked |-> FALSE]

\* [s, found]: the state without the event, and whether a timer was returned
state_removeEvent(s, id) ==
    IF id \in s.scheduledTimeouts.keys
    THEN [s |-> [s EXCEPT !.scheduledTimeouts.keys = @ \ {id}], found |-> TRUE]
    ELSE [s |-> s, found |-> FALSE]

\* [s, ref]: nil is the constant refValueNull, a string or an event is counted
\* in the values table
storeRef(s, v) ==
    IF v = NilVal THEN [s |-> s, ref |-> 0]
    ELSE LET r == values_increment(s.values, v)
         IN [s |-> [s EXCEPT !.values = r.values], ref |-> r.id]

\* which writer gets the bytes, and whether the import panics
wasmWrite(fd, inRange, writerOk) ==
    IF fd \notin {1, 2} THEN [to |-> "none", panicked |-> TRUE]
    ELSE IF ~inRange THEN [to |-> "none", panicked |-> TRUE]
    ELSE [to |-> IF fd = 1 THEN "stdout" ELSE "stderr", panicked |-> ~writerOk]

\* file: what the file table has at fd: "none", "reader" or "writer"
fdWriter(fd, file) ==
    IF fd = fdStdout THEN "stdout"
    ELSE IF fd = fdStderr THEN "stderr"
    ELSE IF file = "writer" THEN "file" ELSE "nil"

\* stdout and stderr swapped
syscallWrite_Swapped(fd, file, writerOk) ==
    LET writer == fdWriter(IF fd = fdStdout THEN fdStderr ELSE IF fd = fdStderr THEN fdStdout ELSE fd, file)
    IN IF writer = "nil" THEN [to |-> "none", err |-> "badfd"]
       ELSE [to |-> writer, err |-> IF writerOk THEN "nil" ELSE "write"]

syscallWrite(fd, file, writerOk) ==
    LET writer == fdWriter(fd, file)
    IN IF writer = "nil" THEN [to |-> "none", err |-> "badfd"]
       ELSE [to |-> writer, err |-> IF writerOk THEN "nil" ELSE "write"]

\* the writer is handed the bytes
Deliver(o, to, chunk) ==
    IF to = "stdout" THEN [o EXCEPT !.stdout = Append(@, chunk)]
    ELSE IF to = "stderr" THEN [o EXCEPT !.stderr = Append(@, chunk)]
    ELSE IF to = "file" THEN [o EXCEPT !.file = Append(@, chunk)]
    ELSE o

\* CallContext.CloseWithExitCode: the first close decides the exit code
CloseWithExitCode(m, code) ==
    IF m.closed THEN m ELSE [closed |-> TRUE, exited |-> TRUE, code |-> code]

\* the deferred mod.Close(ctx) of Run
Module_Close(m) == IF m.closed THEN m ELSE [closed |-> TRUE, exited |-> FALSE, code |-> 0]

\* api.Function.Call: what the call of the run export returns once the guest
\* has stopped: the panic of an import, the exit code of a closed module, or nil
Call_result(m, panicked) ==
    IF panicked THEN [kind |-> "error", code |-> 0]
    ELSE IF m.closed /\ m.exited THEN [kind |-> "exit", code |-> m.code]
    ELSE [kind |-> "nil", code |-> 0]

\* the exit code is lost
wasmExit_NoCode(s, m, code) == [s |-> state_clear(s), m |-> CloseWithExitCode(m, 0)]

wasmExit(s, m, code) == [s |-> state_clear(s), m |-> CloseWithExitCode(m, code)]

Chunks == {"a", "b"}
Fds == {1, 2, 3}
FileKinds == {"none", "reader", "writer"}
ExitCodes == 0..MaxExitCode
NoOut == [stdout |-> <<>>, stderr |-> <<>>, file |-> <<>>]
NoResult == [kind |-> "none", code |-> 0]
OpenModule == [closed |-> FALSE, exited |-> FALSE, code |-> 0]
Call(name, arg, ret) == [name |-> name, arg |-> arg, ret |-> ret]
\* a request of the guest: the import, its descriptor or exit code, the bytes,
\* and whether the bytes can be read (wasmWrite) or the file is open for writing
Req(imp, arg, chunk, ok) == [imp |-> imp, arg |-> arg, chunk |-> chunk, ok |-> ok]

InGuest == pc = "guest" /\ calls < MaxCalls

\* the non-ExitError error of resume is swallowed like the ExitError
funcWrapper_call_Swallow(err, eresult) ==
    IF err = "nil" THEN [ret |-> eresult, panicked |-> FALSE]
    ELSE [ret |-> NilVal, panicked |-> FALSE]

\* what funcWrapper.call does once resume has returned err: "nil", "exit" (a
\* *sys.ExitError) or "error"
funcWrapper_call(err, eresult) ==
    IF err = "nil" THEN [ret |-> eresult, panicked |-> FALSE]
    ELSE IF err = "exit" THEN [ret |-> NilVal, panicked |-> FALSE]
    ELSE [ret |-> NilVal, panicked |-> TRUE]

\* reflectSet of "result" on the event e: e.result = value
reflectSet_result(evs, e, value) == [evs EXCEPT ![e.n] = value]

\* the inputs of a write that differ only in something the write never looks
\* at are drawn once: the buffer and the writer's answer behind a descriptor
\* that is refused, the file table behind descriptors 1 and 2
WriteInput(fd, inRange, writerOk) ==
    /\ fd \notin {fdStdout, fdStderr} => inRange /\ writerOk
    /\ ~inRange => writerOk
FsWriteInput(fd, file, writerOk) ==
    /\ fd \in {fdStdout, fdStderr} => file = "none"
    /\ fdWriter(fd, file) = "nil" => writerOk

\* Run, up to the call of the run export: the imports and the guest are
\* instantiated and the state of this invocation is created
Run_Start ==
    /\ pc = "idle"
    /\ runs < MaxRuns
    /\ runs' = runs + 1
    /\ pc' = "guest"
    /\ st' = Run_newState(st)
    /\ module' = OpenModule
    /\ stack' = <<NilVal>>
    /\ events' = <<>>
    /\ out' = NoOut
    /\ calls' = 0
    /\ reqs' = <<>>
    /\ result' = NoResult
    /\ lastCall' = Call("Run", 0, 0)
    /\ UNCHANGED timers
    /\ UNCHANGED <<rsVars, scanVars, passVars>>

\* Run fails before the guest runs: an instantiation error is returned
Run_Fails ==
    /\ pc = "idle"
    /\ runs < MaxRuns
    /\ runs' = runs + 1
    /\ result' = [kind |-> "error", code |-> 0]
    /\ lastCall' = Call("Run", 0, 0)
    /\ UNCHANGED <<pc, st, module, stack, events, out, timers, calls, reqs>>
    /\ UNCHANGED <<rsVars, scanVars, passVars>>

\* the call of the run export is over (the guest parked itself, exited, or an
\* import panicked): Run returns its error and closes both modules
Run_Return ==
    /\ pc \in {"guest", "exited", "panicked"}
    /\ Len(stack) = 1
    /\ result' = Call_result(module, pc = "panicked")
    /\ module' = Module_Close(module)
    /\ pc' = "idle"
    /\ stack' = <<>>
    /\ lastCall' = Call("return", 0, 0)
    /\ UNCHANGED <<runs, st, events, out, timers, calls, reqs>>
    /\ UNCHANGED <<rsVars, scanVars, passVars>>

\* runtime.wasmWrite
Imp_wasmWrite ==
    /\ InGuest
    /\ \E fd \in Fds, chunk \in Chunks, inRange \in BOOLEAN, writerOk \in BOOLEAN :
        LET w == wasmWrite(fd, inRange, writerOk) IN
        /\ WriteInput(fd, inRange, writerOk)
        /\ out' = Deliver(out, w.to, chunk)
        /\ pc' = IF w.panicked THEN "panicked" ELSE pc
        /\ reqs' = Append(reqs, Req("wasmWrite", fd, chunk, inRange))
        /\ lastCall' = Call("wasmWrite", fd, w.panicked)
    /\ calls' = calls + 1
    /\ UNCHANGED <<runs, result, st, module, stack, events, timers>>
    /\ UNCHANGED <<rsVars, scanVars, passVars>>

\* syscall/js.valueCall of fs.write: syscallWrite, then the callback is
\* called: the event is made pending and the guest is resumed with it
Imp_fsWrite ==
    /\ InGuest
    /\ Len(stack) < MaxDepth
    /\ \E fd \in Fds, chunk \in Chunks, file \in FileKinds, writerOk \in BOOLEAN :
        LET w == syscallWrite(fd, file, writerOk) IN
        /\ FsWriteInput(fd, file, writerOk)
        /\ out' = Deliver(out, w.to, chunk)
        /\ reqs' = Append(reqs, Req("fsWrite", fd, chunk, file = "writer"))
        /\ lastCall' = Call("fsWrite", fd, w.err)
    /\ events' = Append(events, NilVal)
    /\ st' = [st EXCEPT !.pendingEvent = EventVal(Len(events) + 1)]
    /\ stack' = Append(stack, EventVal(Len(events) + 1))
    /\ calls' = calls + 1
    /\ UNCHANGED <<runs, pc, result, module, timers>>
    /\ UNCHANGED <<rsVars, scanVars, passVars>>

\* resume is over: the guest returned from it, or it left or an import
\* panicked during it; funcWrapper.call returns or panics
Guest_resumeReturns ==
    /\ pc \in {"guest", "exited", "panicked"}
    /\ Len(stack) > 1
    /\ LET err == Call_result(module, pc = "panicked").kind
           r == funcWrapper_call(err, events[Last(stack).n]) IN
        /\ pc' = IF r.panicked THEN "panicked" ELSE pc
        /\ lastCall' = Call("resumed", Last(stack).n, [err |-> err, ret |-> r.ret, panicked |-> r.panicked])
    /\ stack' = Front(stack)
    /\ UNCHANGED <<runs, result, st, module, events, out, timers, calls, reqs>>
    /\ UNCHANGED <<rsVars, scanVars, passVars>>

\* syscall/js.stringVal
Imp_stringVal ==
    /\ InGuest
    /\ \E n \in 1..NumStrs :
        LET r == storeRef(st, StrVal(n)) IN
        /\ st' = r.s
        /\ lastCall' = Call("stringVal", n, r.ref)
    /\ calls' = calls + 1
    /\ UNCHANGED <<runs, pc, result, module, stack, events, out, timers, reqs>>
    /\ UNCHANGED <<rsVars, scanVars, passVars>>

\* syscall/js.valueGet of the state's _pendingEvent
Imp_valueGetPendingEvent ==
    /\ InGuest
    /\ LET r == storeRef(st, st.pendingEvent) IN
        /\ st' = r.s
        /\ lastCall' = Call("valueGet", 0, r.ref)
    /\ calls' = calls + 1
    /\ UNCHANGED <<runs, pc, result, module, stack, events, out, timers, reqs>>
    /\ UNCHANGED <<rsVars, scanVars, passVars>>

\* syscall/js.valueSet of the state's _pendingEvent to null
Imp_clearPendingEvent ==
    /\ InGuest
    /\ st' = [st EXCEPT !.pendingEvent = NilVal]
    /\ lastCall' = Call("valueSet", 0, 0)
    /\ calls' = calls + 1
    /\ UNCHANGED <<runs, pc, result, module, stack, events, out, timers, reqs>>
    /\ UNCHANGED <<rsVars, scanVars, passVars>>

\* syscall/js.valueSet of the result of an event the guest has a reference to
Imp_valueSetResult ==
    /\ pc = "guest"
    /\ \E i \in 1..Len(st.values.values), n \in 1..NumStrs :
        LET e == values_get(st.values, (i - 1) + nextID) IN
        /\ e.k = "event"
        /\ events' = reflectSet_result(events, e, StrVal(n))
        /\ lastCall' = Call("valueSetResult", e.n, StrVal(n))
    /\ UNCHANGED <<runs, pc, result, st, module, stack, out, timers, calls, reqs>>
    /\ UNCHANGED <<rsVars, scanVars, passVars>>

\* syscall/js.finalizeRef of a reference the guest holds: the reference is
\* given back and the import panics
Imp_finalizeRef ==
    /\ InGuest
    /\ \E i \in 1..Len(st.values.values) :
        /\ st.values.values[i] # NilVal
        /\ st' = [st EXCEPT !.values = values_decrement(@, (i - 1) + nextID)]
        /\ lastCall' = Call("finalizeRef", (i - 1) + nextID, TRUE)
    /\ pc' = "panicked"
    /\ calls' = calls + 1
    /\ UNCHANGED <<runs, result, module, stack, events, out, timers, reqs>>
    /\ UNCHANGED <<rsVars, scanVars, passVars>>

\* runtime.scheduleTimeoutEvent
Imp_scheduleTimeoutEvent ==
    /\ InGuest
    /\ LET r == state_scheduleEvent(st) IN
        /\ st' = r.s
        /\ timers' = timers \cup {[run |-> runs, id |-> r.id, registered |-> ~r.panicked]}
        /\ pc' = IF r.panicked THEN "panicked" ELSE pc
        /\ lastCall' = Call("scheduleTimeoutEvent", r.id, r.panicked)
    /\ calls' = calls + 1
    /\ UNCHANGED <<runs, result, module, stack, events, out, reqs>>
    /\ UNCHANGED <<rsVars, scanVars, passVars>>

\* runtime.clearTimeoutEvent: a timer that is found is stopped
Imp_clearTimeoutEvent ==
    /\ InGuest
    /\ \E id \in 0..st.nextCallbackTimeoutID :
        LET r == state_removeEvent(st, id) IN
        /\ st' = r.s
        /\ timers' = IF r.found THEN {t \in timers : ~(t.run = runs /\ t.id = id)} ELSE timers
        /\ lastCall' = Call("clearTimeoutEvent", id, r.found)
    /\ calls' = calls + 1
    /\ UNCHANGED <<runs, pc, result, module, stack, events, out, reqs>>
    /\ UNCHANGED <<rsVars, scanVars, passVars>>

\* runtime.wasmExit: the guest does not run on
Imp_wasmExit ==
    /\ pc = "guest"
    /\ \E code \in ExitCodes :
        LET r == wasmExit(st, module, code) IN
        /\ st' = r.s
        /\ module' = r.m
        /\ reqs' = Append(reqs, Req("wasmExit", code, "", TRUE))
        /\ lastCall' = Call("wasmExit", code, 0)
    /\ pc' = "exited"
    /\ UNCHANGED <<runs, result, stack, events, out, timers, calls>>
    /\ UNCHANGED <<rsVars, scanVars, passVars>>

\* the callback of a timer calls resume and panics when resume fails; resume
\* fails on a closed module
callResume(closed) == IF closed THEN "panic" ELSE "resumed"

\* a timer that was started and never stopped fires when the module of its Run
\* is closed: the callback panics on the timer's goroutine, which ends the
\* process
Timer_Fires ==
    /\ pc \in {"idle", "guest", "exited", "panicked"}
    /\ \E t \in timers :
        /\ t.run < runs \/ module.closed
        /\ callResume(TRUE) = "panic"
        /\ timers' = timers \ {t}
        /\ lastCall' = Call("timer", t.run, pc)
    /\ pc' = "crashed"
    /\ UNCHANGED <<runs, result, st, module, stack, events, out, calls, reqs>>
    /\ UNCHANGED <<rsVars, scanVars, passVars>>

\* a timer fires while the module of its Run is open: the run call of that Run
\* has not returned. time.AfterFunc runs the callback on a goroutine of its
\* own, so resume enters the guest while the run call is in progress on the
\* goroutine of Run; the two race on the module, and the resume returns or
\* the process ends
Timer_Resumes ==
    /\ pc \in {"guest", "exited", "panicked"}
    /\ \E t \in timers, crash \in BOOLEAN :
        /\ t.run = runs /\ ~module.closed
        /\ callResume(FALSE) = "resumed"
        /\ timers' = timers \ {t}
        /\ lastCall' = Call("timerResume", t.run, pc)
        /\ pc' = IF crash THEN "crashed" ELSE pc
    /\ UNCHANGED <<runs, result, st, module, stack, events, out, calls, reqs>>
    /\ UNCHANGED <<rsVars, scanVars, passVars>>

NextRun ==
    \/ Run_Start
    \/ Run_Fails
    \/ Run_Return
    \/ Imp_wasmWrite
    \/ Imp_fsWrite
    \/ Guest_resumeReturns
    \/ Imp_stringVal
    \/ Imp_valueGetPendingEvent
    \/ Imp_clearPendingEvent
    \/ Imp_scheduleTimeoutEvent
    \/ Imp_clearTimeoutEvent
    \/ Imp_wasmExit
    \/ Imp_valueSetResult
    \/ Imp_finalizeRef
    \/ Timer_Fires
    \/ Timer_Resumes

(***************************************************************************)
(* The move resolver at one resolution point (spec.md 4.4): a set of       *)
(* simultaneous moves src -> dst among the real registers, no two with the *)
(* same destination, is put in an order; a cycle is broken through the     *)
(* scratch register.                                                       *)
(***************************************************************************)
Locs == 1..NumLocs
Scratch == NumLocs + 1
Move(src, dst) == [src |-> src, dst |-> dst]

\* the sets of simultaneous moves: each register is the destination of at most
\* one move, and a register that keeps its value needs no move
MoveSets == {{Move(f[d], d) : d \in {e \in Locs : f[e] # e}} : f \in [Locs -> Locs]}

\* the destination of m is still to be read by another pending move
IsBlocked_Never(m, pend) == FALSE

IsBlocked(m, pend) == \E o \in pend : o # m /\ o.src = m.dst

ReadyMoves(pend) == {m \in pend : ~IsBlocked(m, pend)}

\* the register file after the move is executed
Exec(regs, m) == [regs EXCEPT ![m.dst] = regs[m.src]]

\* the pending moves that read r read t instead
Redirect(pend, r, t) == {IF o.src = r THEN Move(t, o.dst) ELSE o : o \in pend}

\* a move whose destination no pending move reads is emitted
Move_Emit ==
    /\ pmove # <<>>
    /\ \E m \in ReadyMoves(pmove.pending) :
        pmove' = [pmove EXCEPT !.regs = Exec(@, m),
                               !.pending = @ \ {m},
                               !.emitted = Append(@, m)]
    /\ UNCHANGED <<edges, live, vals>>
    /\ UNCHANGED <<rsVars, scanVars, runVars>>

\* every pending move is blocked: they form cycles. The destination of one of
\* them is saved in the scratch register and its readers read the scratch
Move_BreakCycle ==
    /\ pmove # <<>>
    /\ pmove.pending # {}
    /\ ReadyMoves(pmove.pending) = {}
    /\ \E m \in pmove.pending :
        LET save == Move(m.dst, Scratch) IN
        pmove' = [pmove EXCEPT !.regs = Exec(@, save),
                               !.pending = Redirect(@, m.dst, Scratch),
                               !.emitted = Append(@, save)]
    /\ UNCHANGED <<edges, live, vals>>
    /\ UNCHANGED <<rsVars, scanVars, runVars>>

NextMoves ==
    \/ Move_Emit
    \/ Move_BreakCycle

(***************************************************************************)
(* The move resolver over the edges of a control-flow graph (spec.md 4.4): *)
(* a value x has one home register in each block; on an edge whose two     *)
(* sides disagree a move is inserted: at the end of the source when it has *)
(* no other successor, at the start of the destination when it has no      *)
(* other predecessor, and in a new block on the edge when it is critical.  *)
(***************************************************************************)
Blocks == 1..NumBlocks
HomeRegs == {1, 2}
AllEdges == {e \in Blocks \X Blocks : e[1] # e[2]}

Succs(g, b) == {e \in g : e[1] = b}
Preds(g, b) == {e \in g : e[2] = b}

IsCritical_Never(g, e) == FALSE

IsCritical(g, e) == Cardinality(Succs(g, e[1])) > 1 /\ Cardinality(Preds(g, e[2])) > 1

Disagree(home, e) == home[e[1]] # home[e[2]]
EdgeMove(home, e) == Move(home[e[1]], home[e[2]])

\* the edges are resolved in the order of their source, then destination
Rank(e) == e[1] * (NumBlocks + 1) + e[2]
NextEdge == CHOOSE e \in edges.succ \ edges.done : \A f \in edges.succ \ edges.done : Rank(e) <= Rank(f)
EdgesToDo == edges # <<>> /\ edges.succ \ edges.done # {}

\* both sides agree on the home of x: nothing is inserted
Edge_Agree ==
    /\ EdgesToDo
    /\ ~Disagree(edges.home, NextEdge)
    /\ edges' = [edges EXCEPT !.done = @ \cup {NextEdge}]
    /\ UNCHANGED <<pmove, live, vals>>
    /\ UNCHANGED <<rsVars, scanVars, runVars>>

\* the source has no other successor: the move goes to its end
Edge_MoveAtEnd ==
    /\ EdgesToDo
    /\ Disagree(edges.home, NextEdge)
    /\ Cardinality(Succs(edges.succ, NextEdge[1])) = 1
    /\ edges' = [edges EXCEPT !.done = @ \cup {NextEdge},
                              !.atEnd[NextEdge[1]] = Append(@, EdgeMove(edges.home, NextEdge))]
    /\ UNCHANGED <<pmove, live, vals>>
    /\ UNCHANGED <<rsVars, scanVars, runVars>>

\* the source has other successors, the destination no other predecessor: the
\* move goes to the start of the destination
Edge_MoveAtStart ==
    /\ EdgesToDo
    /\ Disagree(edges.home, NextEdge)
    /\ Cardinality(Succs(edges.succ, NextEdge[1])) > 1
    /\ ~IsCritical(edges.succ, NextEdge)
    /\ edges' = [edges EXCEPT !.done = @ \cup {NextEdge},
                              !.atStart[NextEdge[2]] = Append(@, EdgeMove(edges.home, NextEdge))]
    /\ UNCHANGED <<pmove, live, vals>>
    /\ UNCHANGED <<rsVars, scanVars, runVars>>

\* the edge is critical: it is split by a new block that holds the move
Edge_Split ==
    /\ EdgesToDo
    /\ Disagree(edges.home, NextEdge)
    /\ IsCritical(edges.succ, NextEdge)
    /\ edges' = [edges EXCEPT !.done = @ \cup {NextEdge},
                              !.split[NextEdge] = Append(@, EdgeMove(edges.home, NextEdge))]
    /\ UNCHANGED <<pmove, live, vals>>
    /\ UNCHANGED <<rsVars, scanVars, runVars>>

NextEdges ==
    \/ Edge_Agree
    \/ Edge_MoveAtEnd
    \/ Edge_MoveAtStart
    \/ Edge_Split

(***************************************************************************)
(* The liveness analyzer (spec.md 4.2): a backward fixed-point iteration   *)
(* over the blocks in reverse postorder, repeated until no set changes.    *)
(* The analysis treats every value on its own, so one value is followed.   *)
(***************************************************************************)
LiveBlocks == 1..NumLiveBlocks
LiveVals == {"x"}
EntryBlock == 1

RECURSIVE AscSeq(_)
AscSeq(S) ==
    IF S = {} THEN <<>>
    ELSE LET x == CHOOSE y \in S : \A z \in S : y <= z IN <<x>> \o AscSeq(S \ {x})

Reverse(q) == [i \in 1..Len(q) |-> q[Len(q) + 1 - i]]

\* depth-first search from b: the blocks seen and their postorder
RECURSIVE DfsFrom(_, _, _), DfsEach(_, _, _)
DfsFrom(g, b, acc) ==
    IF b \in acc.seen THEN acc
    ELSE LET below == DfsEach(g, AscSeq({e[2] : e \in Succs(g, b)}),
                              [seen |-> acc.seen \cup {b}, post |-> acc.post])
         IN [seen |-> below.seen, post |-> Append(below.post, b)]
DfsEach(g, q, acc) ==
    IF q = <<>> THEN acc ELSE DfsEach(g, Tail(q), DfsFrom(g, Head(q), acc))

ReversePostorder(g) == Reverse(DfsFrom(g, EntryBlock, [seen |-> {}, post |-> <<>>]).post)

\* the graphs in which every block is reached from the entry block
LiveGraphs == {g \in SUBSET (LiveBlocks \X LiveBlocks) : Len(ReversePostorder(g)) = NumLiveBlocks}

\* live-out[B] = the union of live-in[S] over the successors S of B
LiveOut(g, in, b) == UNION {in[e[2]] : e \in Succs(g, b)}

\* the definitions of the block kill nothing
LiveIn_NoKill(o, defs, uses) == o \cup uses

\* live-in[B] = (live-out[B] - defs[B]) + uses[B]
LiveIn(o, defs, uses) == (o \ defs) \cup uses

LiveRunning == live # <<>> /\ ~live.done

\* the next block of the pass gets its sets
Live_Visit ==
    /\ LiveRunning
    /\ live.cursor <= Len(live.order)
    /\ LET b == live.order[live.cursor]
           o == LiveOut(live.succ, live.in, b)
           i == LiveIn(o, live.defs[b], live.uses[b])
       IN live' = [live EXCEPT !.out[b] = o,
                               !.in[b] = i,
                               !.changed = @ \/ o # live.out[b] \/ i # live.in[b],
                               !.cursor = @ + 1]
    /\ UNCHANGED <<pmove, edges, vals>>
    /\ UNCHANGED <<rsVars, scanVars, runVars>>

\* a set changed in this pass: the blocks are iterated again
Live_NextPass ==
    /\ LiveRunning
    /\ live.cursor > Len(live.order)
    /\ live.changed
    /\ live' = [live EXCEPT !.cursor = 1, !.changed = FALSE, !.passes = @ + 1]
    /\ UNCHANGED <<pmove, edges, vals>>
    /\ UNCHANGED <<rsVars, scanVars, runVars>>

\* no set changed in this pass: the iteration stops
Live_Stop ==
    /\ LiveRunning
    /\ live.cursor > Len(live.order)
    /\ ~live.changed
    /\ live' = [live EXCEPT !.done = TRUE]
    /\ UNCHANGED <<pmove, edges, vals>>
    /\ UNCHANGED <<rsVars, scanVars, runVars>>

NextLive ==
    \/ Live_Visit
    \/ Live_NextPass
    \/ Live_Stop

(***************************************************************************)
(* The values table under any sequence of increment and decrement calls.   *)
(* The caller decrements only IDs it was given and has not given back.     *)
(***************************************************************************)
TabVals == {StrVal(n) : n \in 1..NumTabVals}
ValOp(op, v, id, fresh, pooled, len0) ==
    [op |-> op, v |-> v, id |-> id, fresh |-> fresh, pooled |-> pooled, len0 |-> len0]
Live(held) == {v \in TabVals : held[v] > 0}

Val_Increment ==
    /\ vals # <<>> /\ vals.ops < MaxValOps
    /\ \E v \in TabVals :
        LET r == values_increment(vals.tbl, v)
            h == [vals.held EXCEPT ![v] = @ + 1]
        IN vals' = [tbl |-> r.values,
                    held |-> h,
                    maxLive |-> IF Cardinality(Live(h)) > vals.maxLive
                                THEN Cardinality(Live(h)) ELSE vals.maxLive,
                    ops |-> vals.ops + 1,
                    last |-> ValOp("increment", v, r.id, ~HasId(vals.tbl, v),
                                   Len(vals.tbl.idPool) > 0, Len(vals.tbl.values))]
    /\ UNCHANGED <<pmove, edges, live>>
    /\ UNCHANGED <<rsVars, scanVars, runVars>>

Val_Decrement ==
    /\ vals # <<>> /\ vals.ops < MaxValOps
    /\ \E v \in Live(vals.held) :
        LET id == IdOf(vals.tbl, v) + nextID
        IN vals' = [tbl |-> values_decrement(vals.tbl, id),
                    held |-> [vals.held EXCEPT ![v] = @ - 1],
                    maxLive |-> vals.maxLive,
                    ops |-> vals.ops + 1,
                    last |-> ValOp("decrement", v, id, FALSE,
                                   Len(vals.tbl.idPool) > 0, Len(vals.tbl.values))]
    /\ UNCHANGED <<pmove, edges, live>>
    /\ UNCHANGED <<rsVars, scanVars, runVars>>

NextValues ==
    \/ Val_Increment
    \/ Val_Decrement

NextRegSet ==
    \/ RS_New
    \/ RS_Add
    \/ RS_Has
    \/ RS_Range
    \/ IU_Reset
    \/ IU_Has
    \/ IU_Get
    \/ IU_Remove
    \/ IU_Add
    \/ IU_Range

vars == <<rsVars, scanVars, runVars, passVars>>

(***************************************************************************)
(* The specifications: each exercises one part of the repository and       *)
(* leaves the other parts unused.                                          *)
(***************************************************************************)
InitSets ==
    /\ obj \in {"RegSet", "inUse"}
    /\ regSet = {}
    /\ inUse = newRegInUseSet
    /\ members = {}
    /\ bound = {}
    /\ binding = [r \in RealRegs |-> Nil]
    /\ lastOp = NoOp
    /\ numRegs = 1 /\ ivs = <<>> /\ idx = 0 /\ phase = "idle" /\ active = {}
    /\ free = <<>> /\ hold = <<>> /\ spilled = {}
    /\ runs = 0 /\ pc = "unused" /\ result = NoResult /\ st = 0 /\ module = OpenModule
    /\ stack = <<>> /\ events = <<>> /\ out = NoOut /\ timers = {} /\ calls = 0
    /\ reqs = <<>> /\ lastCall = Call("none", 0, 0)
    /\ pmove = <<>> /\ edges = <<>> /\ live = <<>> /\ vals = <<>>

InitAlloc ==
    /\ numRegs \in 1..MaxRegs
    /\ ivs = <<>>
    /\ idx = 0
    /\ phase = "take"
    /\ active = {}
    /\ free = [c \in Classes |-> NewRegSet(SetToSeq(ClassRegs(c, numRegs)))]
    /\ hold = <<>>
    /\ spilled = {}
    /\ obj = "none" /\ regSet = {} /\ inUse = <<>> /\ members = {} /\ bound = {}
    /\ binding = <<>> /\ lastOp = NoOp
    /\ runs = 0 /\ pc = "unused" /\ result = NoResult /\ st = 0 /\ module = OpenModule
    /\ stack = <<>> /\ events = <<>> /\ out = NoOut /\ timers = {} /\ calls = 0
    /\ reqs = <<>> /\ lastCall = Call("none", 0, 0)
    /\ pmove = <<>> /\ edges = <<>> /\ live = <<>> /\ vals = <<>>

InitExec ==
    /\ runs = 0
    /\ pc = "idle"
    /\ result = NoResult
    /\ st = Run_newState(0)
    /\ module = OpenModule
    /\ stack = <<>>
    /\ events = <<>>
    /\ out = NoOut
    /\ timers = {}
    /\ calls = 0
    /\ reqs = <<>>
    /\ lastCall = Call("none", 0, 0)
    /\ obj = "none" /\ regSet = {} /\ inUse = <<>> /\ members = {} /\ bound = {}
    /\ binding = <<>> /\ lastOp = NoOp
    /\ numRegs = 1 /\ ivs = <<>> /\ idx = 0 /\ phase = "idle" /\ active = {}
    /\ free = <<>> /\ hold = <<>> /\ spilled = {}
    /\ pmove = <<>> /\ edges = <<>> /\ live = <<>> /\ vals = <<>>

InitMoves ==
    /\ \E ms \in MoveSets :
        pmove = [regs |-> [l \in Locs \cup {Scratch} |-> l],
                 moves |-> ms, pending |-> ms, emitted |-> <<>>]
    /\ edges = <<>> /\ live = <<>> /\ vals = <<>>
    /\ obj = "none" /\ regSet = {} /\ inUse = <<>> /\ members = {} /\ bound = {}
    /\ binding = <<>> /\ lastOp = NoOp
    /\ numRegs = 1 /\ ivs = <<>> /\ idx = 0 /\ phase = "idle" /\ active = {}
    /\ free = <<>> /\ hold = <<>> /\ spilled = {}
    /\ runs = 0 /\ pc = "unused" /\ result = NoResult /\ st = 0 /\ module = OpenModule
    /\ stack = <<>> /\ events = <<>> /\ out = NoOut /\ timers = {} /\ calls = 0
    /\ reqs = <<>> /\ lastCall = Call("none", 0, 0)

InitEdges ==
    /\ \E g \in SUBSET AllEdges, h \in [Blocks -> HomeRegs] :
        edges = [succ |-> g, home |-> h, done |-> {},
                 atEnd |-> [b \in Blocks |-> <<>>],
                 atStart |-> [b \in Blocks |-> <<>>],
                 split |-> [e \in g |-> <<>>]]
    /\ pmove = <<>> /\ live = <<>> /\ vals = <<>>
    /\ obj = "none" /\ regSet = {} /\ inUse = <<>> /\ members = {} /\ bound = {}
    /\ binding = <<>> /\ lastOp = NoOp
    /\ numRegs = 1 /\ ivs = <<>> /\ idx = 0 /\ phase = "idle" /\ active = {}
    /\ free = <<>> /\ hold = <<>> /\ spilled = {}
    /\ runs = 0 /\ pc = "unused" /\ result = NoResult /\ st = 0 /\ module = OpenModule
    /\ stack = <<>> /\ events = <<>> /\ out = NoOut /\ timers = {} /\ calls = 0
    /\ reqs = <<>> /\ lastCall = Call("none", 0, 0)

InitLive ==
    /\ \E g \in LiveGraphs, d \in [LiveBlocks -> SUBSET LiveVals], u \in [LiveBlocks -> SUBSET LiveVals] :
        live = [succ |-> g, defs |-> d, uses |-> u,
                in |-> [b \in LiveBlocks |-> {}],
                out |-> [b \in LiveBlocks |-> {}],
                order |-> ReversePostorder(g),
                cursor |-> 1, changed |-> FALSE, passes |-> 1, done |-> FALSE]
    /\ pmove = <<>> /\ edges = <<>> /\ vals = <<>>
    /\ obj = "none" /\ regSet = {} /\ inUse = <<>> /\ members = {} /\ bound = {}
    /\ binding = <<>> /\ lastOp = NoOp
    /\ numRegs = 1 /\ ivs = <<>> /\ idx = 0 /\ phase = "idle" /\ active = {}
    /\ free = <<>> /\ hold = <<>> /\ spilled = {}
    /\ runs = 0 /\ pc = "unused" /\ result = NoResult /\ st = 0 /\ module = OpenModule
    /\ stack = <<>> /\ events = <<>> /\ out = NoOut /\ timers = {} /\ calls = 0
    /\ reqs = <<>> /\ lastCall = Call("none", 0, 0)

InitValues ==
    /\ vals = [tbl |-> NoValues,
               held |-> [v \in TabVals |-> 0],
               maxLive |-> 0,
               ops |-> 0,
               last |-> ValOp("none", NilVal, 0, FALSE, FALSE, 0)]
    /\ pmove = <<>> /\ edges = <<>> /\ live = <<>>
    /\ obj = "none" /\ regSet = {} /\ inUse = <<>> /\ members = {} /\ bound = {}
    /\ binding = <<>> /\ lastOp = NoOp
    /\ numRegs = 1 /\ ivs = <<>> /\ idx = 0 /\ phase = "idle" /\ active = {}
    /\ free = <<>> /\ hold = <<>> /\ spilled = {}
    /\ runs = 0 /\ pc = "unused" /\ result = NoResult /\ st = 0 /\ module = OpenModule
    /\ stack = <<>> /\ events = <<>> /\ out = NoOut /\ timers = {} /\ calls = 0
    /\ reqs = <<>> /\ lastCall = Call("none", 0, 0)

SpecRegSet == InitSets /\ [][NextRegSet]_vars

SpecScan == InitAlloc /\ [][NextScan]_vars

SpecRun == InitExec /\ [][NextRun]_vars

SpecMoves == InitMoves /\ [][NextMoves]_vars

SpecEdges == InitEdges /\ [][NextEdges]_vars

SpecLive == InitLive /\ [][NextLive]_vars

SpecValues == InitValues /\ [][NextValues]_vars

(***************************************************************************)
(* Claims about the register sets, checked under SpecRegSet.               *)
(***************************************************************************)
\* s visits the members of S exactly once each, in strictly ascending order
IsAscendingEnum(s, S) ==
    /\ \A i, j \in DOMAIN s : i < j => s[i] < s[j]
    /\ {s[i] : i \in DOMAIN s} = S

RangedRegs(pairs) == [i \in DOMAIN pairs |-> pairs[i][1]]

\* C1: after any sequence of add and remove over the real registers 0..63,
\* has(r) is true exactly for the registers added and not removed since, and
\* Range / range_ visit every member exactly once in strictly ascending order.
C1_SetSemantics ==
    /\ \A r \in RealRegs : RegSet_has(regSet, r) <=> r \in members
    /\ \A r \in RealRegs : InUse_has(inUse, r) <=> r \in bound
    /\ IsAscendingEnum(RegSet_Range(regSet), members)
    /\ IsAscendingEnum(RangedRegs(InUse_range(inUse)), bound)
    /\ (lastOp.name = "has" /\ lastOp.r \in RealRegs) =>
            (lastOp.ret <=> lastOp.r \in (IF lastOp.set = "RegSet" THEN members ELSE bound))
    /\ lastOp.name = "Range" => IsAscendingEnum(lastOp.ret, members)
    /\ lastOp.name = "range_" => IsAscendingEnum(RangedRegs(lastOp.ret), bound)

\* a register was removed from a set that keeps two others, and the ascending
\* enumeration of a RegSet of two registers was taken
C1_Witness ==
    \/ /\ lastOp.name = "remove" /\ lastOp.r \in RealRegs /\ lastOp.ret = TRUE
       /\ Cardinality(bound) >= 2 /\ Len(InUse_range(inUse)) >= 2
    \/ /\ lastOp.name = "Range" /\ Len(lastOp.ret) >= 2

\* C2: add(r) with r >= 64 is silently ignored by RegSet and regInUseSet: no
\* error, every has(q) and every binding as before, has(r) still false.
C2_AddBeyondWidthIgnored ==
    [][(lastOp'.name = "add" /\ lastOp'.r >= RegSetWidth) =>
            /\ ~lastOp'.panicked
            /\ \A q \in 0..(RegSetWidth + 1) :
                    /\ RegSet_has(regSet', q) = RegSet_has(regSet, q)
                    /\ InUse_has(inUse', q) = InUse_has(inUse, q)
            /\ regSet' = regSet
            /\ inUse' = inUse
            /\ ~RegSet_has(regSet', lastOp'.r)
            /\ ~InUse_has(inUse', lastOp'.r)]_vars

\* add with an ID at or beyond the width was called on a set that has members
C2_Witness ==
    /\ lastOp.name = "add"
    /\ lastOp.r >= RegSetWidth
    /\ (members # {} \/ bound # {})

\* C3: has, add, get and remove with a register ID >= 64 complete without an
\* error and leave the set unchanged.
C3_OutOfRangeTolerated ==
    [][(lastOp'.name \in {"has", "add", "get", "remove"} /\ lastOp'.r >= RegSetWidth) =>
            /\ ~lastOp'.panicked
            /\ regSet' = regSet
            /\ inUse' = inUse]_vars

(***************************************************************************)
(* Claims about the linear scan, checked under SpecScan.                   *)
(***************************************************************************)
Taken == DOMAIN ivs
HasReg(v) == hold[v].reg # NoReg
\* the program points at which value v occupies its register
Occupied(v) == IF HasReg(v) THEN hold[v].from..hold[v].to ELSE {}
\* values u and v occupy their registers at some common program point
SharePoint(u, v) ==
    /\ HasReg(u) /\ HasReg(v)
    /\ \E p \in Points :
        /\ hold[u].from <= p /\ p <= hold[u].to
        /\ hold[v].from <= p /\ p <= hold[v].to
\* the scan has allocated every interval it took: the run is complete if the
\* sorted list ends here
Settled == phase = "take"
InClass(c) == {v \in active : ivs[v].class = c}

\* C7: no two values of one class with overlapping live intervals are assigned
\* the same real register at the same program point.
C7_NoAliasing ==
    \A u, v \in Taken :
        (u < v /\ ivs[u].class = ivs[v].class /\ Overlap(ivs[u], ivs[v])) =>
            ~(hold[u].reg = hold[v].reg /\ SharePoint(u, v))

\* a complete run in which two overlapping values of a class sit in different
\* registers and a later value of the class took over one of them
C7_Witness ==
    /\ Settled
    /\ \E u, v, w \in Taken :
        /\ u < v /\ v < w
        /\ ivs[u].class = ivs[v].class /\ ivs[v].class = ivs[w].class
        /\ Overlap(ivs[u], ivs[v]) /\ Overlap(ivs[u], ivs[w])
        /\ HasReg(u) /\ HasReg(v) /\ HasReg(w)
        /\ hold[u].reg # hold[v].reg
        /\ hold[w].reg = hold[v].reg

\* v1 = [0,5], v2 = [1,2], v3 = [2,4] in one class with 2 registers
IsC8Scenario ==
    /\ numRegs = 2
    /\ Len(ivs) = 3
    /\ Settled
    /\ \E c \in Classes :
        ivs = << [class |-> c, def |-> 0, use |-> 5],
                 [class |-> c, def |-> 1, use |-> 2],
                 [class |-> c, def |-> 2, use |-> 4] >>

\* C8: on that scenario nothing is spilled: v1 keeps one register over [0,5],
\* v2 has the other over [1,2] and is retired, v3 reuses v2's register over
\* [2,4], and no register holds two values at any point.
C8_Scenario ==
    IsC8Scenario =>
        /\ spilled = {}
        /\ HasReg(1) /\ HasReg(2) /\ HasReg(3)
        /\ hold[1].from = DefPoint(0) /\ hold[1].to = UsePoint(5)
        /\ hold[2].from = DefPoint(1) /\ hold[2].to = UsePoint(2)
        /\ hold[3].from = DefPoint(2) /\ hold[3].to = UsePoint(4)
        /\ hold[2].reg # hold[1].reg
        /\ hold[3].reg = hold[2].reg
        /\ 2 \notin active
        /\ \A u, v \in 1..3 : \A p \in Points :
                (u # v /\ p \in Occupied(u) \cap Occupied(v)) => hold[u].reg # hold[v].reg

C8_Witness == IsC8Scenario /\ 1 \in active /\ 3 \in active

\* three values of one class, live at the same time, with 2 registers
IsC9Scenario ==
    /\ numRegs = 2
    /\ Len(ivs) = 3
    /\ Settled
    /\ \A u, v \in 1..3 : ivs[u].class = ivs[v].class /\ Overlap(ivs[u], ivs[v])

\* the active values when the third interval arrives, and their furthest end
FurthestActiveEnd == IF End(ivs[1]) >= End(ivs[2]) THEN End(ivs[1]) ELSE End(ivs[2])

C9_WitnessEvict == IsC9Scenario /\ 3 \in active /\ End(ivs[3]) < FurthestActiveEnd

ExitReqs == SelectSeq(reqs, LAMBDA r : r.imp = "wasmExit")
Returned == pc = "idle" /\ lastCall.name = "return"

\* C4: when the guest has finished, that is, it called runtime.wasmExit with
\* code c (main returning exits with 0), Run returns a non-nil *sys.ExitError
\* whose exit code is c, also for c = 0; Run returns nil only for a guest that
\* did not exit.
C4_ExitCode ==
    Returned =>
        /\ ExitReqs # <<>> => result = [kind |-> "exit", code |-> ExitReqs[1].arg]
        /\ result.kind = "nil" => ExitReqs = <<>>

\* Run returned the exit code 0 of a guest that wrote to stdout and then left
C4_Witness ==
    /\ Returned
    /\ ExitReqs # <<>> /\ ExitReqs[1].arg = 0
    /\ result = [kind |-> "exit", code |-> 0]
    /\ out.stdout # <<>>

\* the bytes of the requests that name descriptor fd and are carried out
ChunksOf(q) == [i \in 1..Len(q) |-> q[i].chunk]
WrittenTo(fd) ==
    ChunksOf(SelectSeq(reqs, LAMBDA r :
        \/ r.imp = "wasmWrite" /\ r.arg = fd /\ r.ok
        \/ r.imp = "fsWrite" /\ r.arg = fd))
WrittenToFiles ==
    ChunksOf(SelectSeq(reqs, LAMBDA r :
        r.imp = "fsWrite" /\ r.arg \notin {fdStdout, fdStderr} /\ r.ok))

\* C5: the stdout writer is handed exactly the bytes the guest wrote to
\* descriptor 1 and the stderr writer exactly those written to descriptor 2, in
\* the order written; a runtime.wasmWrite to another descriptor panics (it is
\* the last thing the guest did) and hands its bytes to no writer.
C5_Routing ==
    /\ out.stdout = WrittenTo(fdStdout)
    /\ out.stderr = WrittenTo(fdStderr)
    /\ out.file = WrittenToFiles
    /\ \A i \in 1..Len(reqs) :
        reqs[i].imp = "wasmWrite" /\ reqs[i].arg \notin {fdStdout, fdStderr}
            => i = Len(reqs) /\ pc \in {"panicked", "idle", "crashed"}

\* a write reached stdout, and then a wasmWrite to descriptor 3 panicked
C5_Witness ==
    /\ out = [stdout |-> <<"b">>, stderr |-> <<>>, file |-> <<>>]
    /\ Len(reqs) = 2
    /\ reqs[2].imp = "wasmWrite" /\ reqs[2].arg = 3
    /\ pc = "panicked"

\* two different writes reached stderr in the order written, one through
\* runtime.wasmWrite and one through fs.write
C5_WitnessOrder ==
    /\ out.stderr = <<"b", "a">>
    /\ reqs[1].imp = "wasmWrite" /\ reqs[2].imp = "fsWrite"

FreshState ==
    [nextCallbackTimeoutID |-> 0, scheduledTimeouts |-> [nil |-> TRUE, keys |-> {}],
     values |-> [values |-> <<>>, goRefCounts |-> <<>>, ids |-> {}, idPool |-> <<>>],
     pendingEvent |-> NilVal]

\* the guest of a Run is given a state without values, IDs, timeouts or event
C6_StateFresh == (lastCall.name = "Run" /\ pc = "guest") => st = FreshState

\* C6: Run may be called again on the same WasmExec; each invocation starts
\* from a fresh state (no values, empty ID pool, no scheduled timeouts, no
\* pending event, timeout counter 0), and nothing an earlier Run created is
\* observable while a later Run runs: no timer started by an earlier Run fires
\* during it.
C6_FreshRuns ==
    /\ C6_StateFresh
    /\ ~(/\ lastCall.name = "timer"
         /\ lastCall.arg < runs
         /\ lastCall.ret \in {"guest", "exited", "panicked"})

\* a second Run has started from a fresh state while a timer that the first
\* Run started is still running
C6_Witness ==
    /\ runs = 2 /\ pc = "guest" /\ lastCall.name = "Run"
    /\ st = FreshState
    /\ \E t \in timers : t.run = 1

(***************************************************************************)
(* Claims about the move resolver.                                         *)
(***************************************************************************)
\* the register a destination is to receive the value of
OrigSrc(d) == (CHOOSE o \in pmove.moves : o.dst = d).src
MovesDone == pmove # <<>> /\ pmove.pending = {}
IsSwap(ms) == \E a, b \in Locs : a # b /\ Move(a, b) \in ms /\ Move(b, a) \in ms

\* C11: the sequence emitted for a set of simultaneous moves leaves in every
\* destination the value its source held before the first move, cycles
\* included; until a move is emitted the register it reads still holds the
\* value to deliver (no source is overwritten before it is copied onward), and
\* a cycle is broken through the scratch register.
C11_ParallelMoves ==
    pmove # <<>> =>
        /\ \A m \in pmove.pending : pmove.regs[m.src] = OrigSrc(m.dst)
        /\ \A o \in pmove.moves :
               (\A m \in pmove.pending : m.dst # o.dst) => pmove.regs[o.dst] = o.src
        /\ MovesDone => \A o \in pmove.moves : pmove.regs[o.dst] = o.src

\* a swap of two registers and a move out of one of them were put in order,
\* through the scratch register
C11_Witness ==
    /\ MovesDone
    /\ IsSwap(pmove.moves)
    /\ Cardinality(pmove.moves) = 3
    /\ \E i \in 1..Len(pmove.emitted) : pmove.emitted[i].dst = Scratch

\* the moves executed when control passes along the edge e: those at the end
\* of its source, those of the block that splits it, those at the start of its
\* destination
MovesAlong(e) == edges.atEnd[e[1]] \o edges.split[e] \o edges.atStart[e[2]]
MovesWanted(e) ==
    IF e \in edges.done /\ Disagree(edges.home, e) THEN <<EdgeMove(edges.home, e)>> ELSE <<>>

\* C12: for an edge whose source leaves x in R1 and whose destination expects
\* it in R2, exactly one move R1 -> R2 executes when control passes along the
\* edge, and nothing executes along an edge whose sides agree; on a critical
\* edge the move is in a new block on that edge, so that no move executes along
\* any path but the edge it was inserted for.
C12_EdgeMoves ==
    edges # <<>> =>
        \A e \in edges.succ :
            /\ MovesAlong(e) = MovesWanted(e)
            /\ (e \in edges.done /\ IsCritical(edges.succ, e) /\ Disagree(edges.home, e))
                   => edges.split[e] = <<EdgeMove(edges.home, e)>>

\* a critical edge was split for its move, while another edge out of the same
\* source carries no move and another edge into the same destination does not
\* carry this one
C12_Witness ==
    /\ edges # <<>>
    /\ edges.done = edges.succ
    /\ \E e \in edges.succ :
        /\ edges.split[e] # <<>>
        /\ \E f \in Succs(edges.succ, e[1]) : f # e /\ MovesAlong(f) = <<>>
        /\ \E f \in Preds(edges.succ, e[2]) : f # e /\ MovesAlong(f) = MovesWanted(f)

(***************************************************************************)
(* Claims about the liveness analyzer.                                     *)
(***************************************************************************)
\* every pass but the last adds a value to one of the 2 * blocks sets
MaxPasses == 2 * NumLiveBlocks * Cardinality(LiveVals) + 1

\* C13: the liveness iteration terminates on every control-flow graph, loops
\* included: it is never stuck before it stops and stops within a number of
\* passes bounded by the size of the graph; when it has stopped, every block B
\* has live-out[B] = the union of live-in[S] over its successors S and
\* live-in[B] = (live-out[B] minus defs[B]) union uses[B].
C13_LivenessFixpoint ==
    live # <<>> =>
        /\ live.passes <= MaxPasses
        /\ ~live.done => ENABLED NextLive
        /\ live.done =>
            \A b \in LiveBlocks :
                /\ live.out[b] = UNION {live.in[t] : t \in {c \in LiveBlocks : <<b, c>> \in live.succ}}
                /\ live.in[b] = (live.out[b] \ live.defs[b]) \cup live.uses[b]

\* the iteration stopped on a graph with a loop between the two blocks, after
\* the back edge forced a further pass, with x live around the loop
C13_Witness ==
    /\ live # <<>>
    /\ live.done
    /\ <<1, 2>> \in live.succ /\ <<2, 1>> \in live.succ
    /\ live.passes >= 3
    /\ live.in[1] = {"x"} /\ live.out[2] = {"x"}

(***************************************************************************)
(* Claims about the values table.                                          *)
(***************************************************************************)
TabCount(v) == vals.tbl.goRefCounts[IdOf(vals.tbl, v) + 1]
TabSlot(v) == vals.tbl.values[IdOf(vals.tbl, v) + 1]

\* C14: after any calls of increment and decrement the ids map holds exactly
\* the live values: v is a key of ids if and only if its reference count is
\* greater than 0 (the caller holds a reference to it), and then values[ids[v]]
\* is v.
C14_IdsAreLive ==
    vals # <<>> =>
        \A v \in TabVals :
            /\ HasId(vals.tbl, v) <=> vals.held[v] > 0
            /\ HasId(vals.tbl, v) => TabCount(v) # 0 /\ TabSlot(v) = v

\* a value was incremented and decremented again
C14_Witness ==
    /\ vals # <<>>
    /\ vals.last.op = "decrement"
    /\ vals.held[vals.last.v] = 0

\* C15: after any calls of increment and decrement every ID in idPool is a
\* reclaimed ID: its slot of values is nil and its reference count is 0; and no
\* ID is in idPool twice.
C15_PoolIsReclaimed ==
    vals # <<>> =>
        LET pool == vals.tbl.idPool IN
        /\ \A i \in 1..Len(pool) :
            /\ vals.tbl.values[pool[i] + 1] = NilVal
            /\ vals.tbl.goRefCounts[pool[i] + 1] = 0
        /\ \A i, k \in 1..Len(pool) : pool[i] = pool[k] => i = k

\* a reclaimed ID is in the pool and its value is incremented again
C15_Witness ==
    /\ vals # <<>>
    /\ vals.last.op = "increment" /\ ~vals.last.fresh
    /\ vals.tbl.idPool # <<>>

\* C16: an ID whose reference count drops to zero is put in idPool; increment
\* of a value that is not in the table takes an ID from idPool when there is
\* one and appends a slot only when idPool is empty; so the table is never
\* longer than the largest number of values that were live at the same time.
C16_IdReuse ==
    vals # <<>> =>
        /\ (vals.last.op = "decrement" /\ vals.tbl.goRefCounts[(vals.last.id - nextID) + 1] = 0)
               => \E i \in 1..Len(vals.tbl.idPool) : vals.tbl.idPool[i] = vals.last.id - nextID
        /\ (vals.last.op = "increment" /\ vals.last.fresh)
               => Len(vals.tbl.values) = vals.last.len0 + (IF vals.last.pooled THEN 0 ELSE 1)
        /\ Len(vals.tbl.values) <= vals.maxLive

\* a value new to the table took the reclaimed ID of another one
C16_Witness ==
    /\ vals # <<>>
    /\ vals.last.op = "increment" /\ vals.last.fresh /\ vals.last.pooled
    /\ Len(vals.tbl.values) = 1
    /\ vals.tbl.idPool = <<>>

(***************************************************************************)
(* Claims about timeouts and events.                                       *)
(***************************************************************************)
\* wasmExit leaves the state without values, IDs, registered timers or event
C17_StateCleared ==
    module.exited =>
        /\ st.nextCallbackTimeoutID = 0
        /\ st.scheduledTimeouts.keys = {}
        /\ st.values = NoValues
        /\ st.pendingEvent = NilVal

\* C17: all side effects of a run other than memory are cleaned up on wasmExit:
\* every timeout that was scheduled and is still pending when wasmExit runs is
\* cancelled, so no timer is left and no resume callback fires after the exit,
\* and the state keeps no values, IDs, timers or pending event.
C17_ExitCleansUp ==
    module.exited =>
        /\ timers = {}
        /\ lastCall.name \notin {"timer", "timerResume"}
        /\ C17_StateCleared

\* wasmExit has just run while a timeout was pending
C17_Witness ==
    /\ module.exited
    /\ lastCall.name = "wasmExit"
    /\ timers # {}

\* C18: the resume of a timeout does not run on another goroutine than the
\* module: a timeout's resume never enters the guest while another call into
\* the same module (the run call or a resume) is in progress.
C18_NoConcurrentResume ==
    ~(/\ lastCall.name = "timerResume"
      /\ lastCall.arg = runs
      /\ lastCall.ret \in {"guest", "exited", "panicked"})

\* the timeout of a Run has fired while the run call of that Run is unwinding
C18_Witness ==
    /\ lastCall.name = "timerResume"
    /\ lastCall.ret = "panicked"
    /\ ~module.closed

\* C19: in the state of a Run every scheduleTimeoutEvent registers its timer
\* and returns the next id 0, 1, 2, ..., which no registered timer has, and
\* clearTimeoutEvent of an id removes that timer and no other.
C19_TimeoutHandles ==
    [][/\ (lastCall'.name = "scheduleTimeoutEvent" /\ calls' = calls + 1) =>
            /\ lastCall'.ret = FALSE
            /\ lastCall'.arg = st.nextCallbackTimeoutID
            /\ lastCall'.arg \notin st.scheduledTimeouts.keys
            /\ st'.scheduledTimeouts.keys = st.scheduledTimeouts.keys \cup {lastCall'.arg}
            /\ timers' = timers \cup {[run |-> runs, id |-> lastCall'.arg, registered |-> TRUE]}
       /\ (lastCall'.name = "clearTimeoutEvent" /\ calls' = calls + 1) =>
            /\ st'.scheduledTimeouts.keys = st.scheduledTimeouts.keys \ {lastCall'.arg}
            /\ timers' = {t \in timers : ~(t.run = runs /\ t.id = lastCall'.arg /\ t.registered)}
      ]_vars

\* scheduleTimeoutEvent was called in the state of a Run
C19_Witness ==
    /\ lastCall.name = "scheduleTimeoutEvent"
    /\ runs > 0
    /\ \E t \in timers : t.run = runs

\* C20: funcWrapper.call makes the new event the pending event before the guest
\* is resumed; when resume returns normally the call gives back the result
\* field of that event, which the guest set through reflectSet; when resume
\* fails with an ExitError the call returns nil; any other error of resume
\* panics.
C20_FuncWrapperCall ==
    /\ lastCall.name = "fsWrite" =>
        /\ st.pendingEvent = Last(stack)
        /\ Last(stack) = EventVal(Len(events))
    /\ lastCall.name = "resumed" =>
        /\ lastCall.ret.err = "nil" =>
            ~lastCall.ret.panicked /\ lastCall.ret.ret = events[lastCall.arg]
        /\ lastCall.ret.err = "exit" =>
            ~lastCall.ret.panicked /\ lastCall.ret.ret = NilVal
        /\ lastCall.ret.err = "error" =>
            lastCall.ret.panicked /\ pc = "panicked"

\* the guest set the result of its event and returned from resume
C20_Witness ==
    /\ lastCall.name = "resumed"
    /\ lastCall.ret.err = "nil"
    /\ lastCall.ret.ret = StrVal(1)
    /\ events[lastCall.arg] = StrVal(1)

\* the guest left during resume
C20_WitnessExit ==
    /\ lastCall.name = "resumed"
    /\ lastCall.ret.err = "exit"
    /\ pc = "exited"

\* an import panicked during resume
C20_WitnessPanic ==
    /\ lastCall.name = "resumed"
    /\ lastCall.ret.err = "error"

(***************************************************************************)
(* Claims about the bindings of the in-use register set.                   *)
(***************************************************************************)
\* C21: after any sequence of add, remove and reset each real register 0..63
\* is bound to at most one value state: get(r) returns the state of the most
\* recent add(r, .) that was not followed by remove(r) or reset (so an add on
\* an occupied register replaces the occupant), has(r) is true exactly when
\* that binding is not nil, and range_ visits a register at most once.
C21_Bindings ==
    obj = "inUse" =>
        LET visited == InUse_range(inUse) IN
        /\ \A r \in RealRegs :
            /\ InUse_get(inUse, r) = [ret |-> binding[r], panicked |-> FALSE]
            /\ InUse_has(inUse, r) <=> binding[r] # Nil
        /\ Len(visited) = Cardinality({visited[i][1] : i \in 1..Len(visited)})
        /\ (lastOp.name = "get" /\ lastOp.r \in RealRegs) =>
            ~lastOp.panicked /\ lastOp.ret = binding[lastOp.r]
        /\ (lastOp.name = "has" /\ lastOp.r \in RealRegs) =>
            (lastOp.ret <=> binding[lastOp.r] # Nil)
        /\ (lastOp.name = "add" /\ lastOp.r \in RealRegs) =>
            InUse_get(inUse, lastOp.r).ret = lastOp.ret.vr

\* an add has put a state in place of another occupant of its register, while
\* a second register is occupied
C21_Witness ==
    /\ obj = "inUse"
    /\ lastOp.name = "add" /\ lastOp.r \in RealRegs
    /\ lastOp.ret.over # Nil /\ lastOp.ret.over # lastOp.ret.vr
    /\ InUse_get(inUse, lastOp.r).ret = lastOp.ret.vr
    /\ Cardinality(bound) >= 2

\* get returned nothing for a register whose occupant was removed
C21_WitnessRemoved ==
    /\ obj = "inUse"
    /\ lastOp.name = "get" /\ lastOp.r \in RealRegs
    /\ lastOp.ret = Nil
    /\ bound # {}

====
